---- MODULE Spec2Model ----
(***************************************************************************)
(* Domcraft: the chunked terrain engine.                                   *)
(*   src/src/world/chunk.rs           Chunk and its {stage, progress} guard *)
(*   src/src/world/chunkedterrain.rs  ChunkedTerrain: window and dispatcher *)
(*   src/src/world.rs                 World::tick                           *)
(* The worker pool (world/chunk_worker_pool.rs) is not part of the sources  *)
(* at hand; it is modelled from spec.md section 6: it takes each task from  *)
(* the channel once and calls the Chunk method the task names.              *)
(***************************************************************************)
EXTENDS Integers, Sequences, FiniteSets, TLC

(***************************************************************************)
(* Bounds of the model and program constants.                              *)
(***************************************************************************)
\* chunkedterrain.rs:8
CHUNK_SIZE == 16
\* render_distance, the parameter of ChunkedTerrain::new (World::new passes 8);
\* the window holds (2 * RenderDistance)^3 chunks.
RenderDistance == 1
\* Spec: the threads of the worker pool, the World::tick calls a behaviour
\* makes and how many of them move the window.
PoolThreads == 1
MaxTicks == 3
MaxSlides == 1
\* SpecConcurrent: the threads of the worker pool, the tick_progress calls of
\* the ticking thread, the number of tasks and scans in progress above which
\* it starts none, and the tick_progress calls a second thread makes.
ConcurrentThreads == 2
MaxScans == 3
MaxOverlap == 0
MaxReentries == 1
\* SpecConcurrent: the calls the ticking thread makes before the second
\* thread makes its first.
EarlyScans == 2
\* SpecWindow: the calls of update_player_position that move the window, and
\* how many chunks a position is away from World::new's on the x and z axes
\* and on the y axis.
MaxMoves == 2
JumpXZ == 2
JumpY == 3
\* SpecFace: the in-chunk coordinates a face computation is tried at are
\* 0..FaceDepth and CHUNK_SIZE - 1 - FaceDepth..CHUNK_SIZE - 1, and the block
\* arrays have a solid slab of up to SlabDepth layers at either end of an axis.
FaceDepth == 1
SlabDepth == 2
\* SpecRedirect: the World::tick calls and the redirections (SwitchingTo) a
\* behaviour makes.
RedirectTicks == 2
MaxRedirects == 1
\* SpecDrop: the World::tick calls a behaviour makes, and the chunks that may
\* have lost their task to a drop at one time.
DropTicks == 3
MaxOrphans == 1
\* SpecRemesh: the World::tick calls a behaviour makes, and the number of
\* tasks in progress above which the thread starts none.
RemeshTicks == 4
RemeshBacklog == 0
\* SpecLive: the number of tasks in progress above which the ticking thread
\* starts no tick.
LiveBacklog == 1
\* SpecLocks: the threads of the worker pool, the World::tick calls a
\* behaviour makes and the number of tasks in progress above which the main
\* thread starts no tick.
LockThreads == 2
LockTicks == 3
LockBacklog == 0
\* SpecSlide: the World::tick calls a behaviour makes, and the number of
\* tasks in progress above which the thread starts none.
SlideTicks == 4
SlideBacklog == 1

\* World::new starts the player at block [1, 40, 1]; the other position is one
\* chunk further in +X.
InitialPosition == <<1, 40, 1>>
PlayerPositions == {<<1, 40, 1>>, <<17, 40, 1>>}

(***************************************************************************)
(* Data.                                                                   *)
(***************************************************************************)
\* Option<T>
None == <<>>
Some(x) == <<x>>
IsSome(o) == o # <<>>
Unwrap(o) == o[1]

\* chunk.rs:12-19
ADJACENT_OFFSETS ==
  << <<1, 0, 0>>, <<-1, 0, 0>>, <<0, 1, 0>>, <<0, -1, 0>>, <<0, 0, 1>>, <<0, 0, -1>> >>

\* chunk.rs:38-43
ChunkStateStage == {"ChunkGen", "ChunkVisGen", "MeshGen", "Ready"}
\* The declaration order of the stages.
StageOrd(s) ==
  CASE s = "ChunkGen" -> 0
    [] s = "ChunkVisGen" -> 1
    [] s = "MeshGen" -> 2
    [] s = "Ready" -> 3

\* chunk.rs:46-51; a progress is a tuple whose head is the variant.
Waiting == <<"Waiting">>
TaskAssigned == <<"TaskAssigned">>
Processing == <<"Processing">>
SwitchingTo(s) == <<"SwitchingTo", s>>
IsSwitching(p) == p[1] = "SwitchingTo"

\* Rust's integer division truncates toward zero.
RustDiv(a, b) == IF a >= 0 THEN a \div b ELSE -((-a) \div b)

Max(a, b) == IF a >= b THEN a ELSE b
Min(a, b) == IF a <= b THEN a ELSE b

\* The half-open range lo..hi as a sequence.
Range(lo, hi) == [i \in 1..Max(hi - lo, 0) |-> lo + i - 1]

RECURSIVE Flatten(_)
Flatten(ss) == IF ss = <<>> THEN <<>> ELSE Head(ss) \o Flatten(Tail(ss))

SeqSet(s) == {s[i] : i \in 1..Len(s)}

(***************************************************************************)
(* Chunk (chunk.rs).  A chunk object is a record; `poisoned` is the state  *)
(* mutex's poison flag (a panic while the guard is held); `ready_once`,    *)
(* `meshes_made` and `redirected` are history: whether the stage has ever  *)
(* been Ready, how many ChunkMesh objects were created for the chunk, and  *)
(* which guard ("start", "end") last applied a SwitchingTo.                *)
(***************************************************************************)
\* Chunk::new
NewChunk(chunk_id) ==
  [chunk_id |-> chunk_id,
   blocks |-> None,
   block_vis |-> None,
   mesh |-> None,
   stage |-> "ChunkGen",
   progress |-> Waiting,
   poisoned |-> FALSE,
   ready_once |-> FALSE,
   meshes_made |-> 0,
   redirected |-> "none"]

\* start_process_check with the TaskAssigned arm putting the progress back to
\* Waiting instead of Processing.
start_process_check_unmarked(c, expected_stage) ==
  IF c.poisoned THEN [chunk |-> c, ret |-> "panic"]
  ELSE IF c.stage # expected_stage
    THEN [chunk |-> [c EXCEPT !.poisoned = TRUE], ret |-> "panic"]
  ELSE IF c.progress = Waiting
    THEN [chunk |-> [c EXCEPT !.poisoned = TRUE], ret |-> "panic"]
  ELSE IF c.progress = TaskAssigned
    THEN [chunk |-> [c EXCEPT !.progress = Waiting], ret |-> "true"]
  ELSE IF c.progress = Processing
    THEN [chunk |-> c, ret |-> "false"]
  ELSE [chunk |-> [c EXCEPT !.stage = c.progress[2], !.progress = Waiting,
                            !.ready_once = c.ready_once \/ c.progress[2] = "Ready",
                            !.redirected = "start"],
        ret |-> "false"]

\* start_process_check with the SwitchingTo arm treated like TaskAssigned:
\* the redirection is ignored and the stage body runs.
start_process_check_no_switch(c, expected_stage) ==
  IF c.poisoned THEN [chunk |-> c, ret |-> "panic"]
  ELSE IF c.stage # expected_stage
    THEN [chunk |-> [c EXCEPT !.poisoned = TRUE], ret |-> "panic"]
  ELSE IF c.progress = Waiting
    THEN [chunk |-> [c EXCEPT !.poisoned = TRUE], ret |-> "panic"]
  ELSE IF c.progress = Processing
    THEN [chunk |-> c, ret |-> "false"]
  ELSE [chunk |-> [c EXCEPT !.progress = Processing], ret |-> "true"]

\* Chunk::start_process_check: the chunk after the call and what the call
\* returned ("true", "false") or that it panicked.
start_process_check(c, expected_stage) ==
  IF c.poisoned THEN [chunk |-> c, ret |-> "panic"]
  ELSE IF c.stage # expected_stage
    THEN [chunk |-> [c EXCEPT !.poisoned = TRUE], ret |-> "panic"]
  ELSE IF c.progress = Waiting
    THEN [chunk |-> [c EXCEPT !.poisoned = TRUE], ret |-> "panic"]
  ELSE IF c.progress = TaskAssigned
    THEN [chunk |-> [c EXCEPT !.progress = Processing], ret |-> "true"]
  ELSE IF c.progress = Processing
    THEN [chunk |-> c, ret |-> "false"]
  ELSE [chunk |-> [c EXCEPT !.stage = c.progress[2], !.progress = Waiting,
                            !.ready_once = c.ready_once \/ c.progress[2] = "Ready",
                            !.redirected = "start"],
        ret |-> "false"]

\* Chunk::end_process_check (the success closures of the three callers are
\* empty).
end_process_check(c, current_stage, next_stage) ==
  IF c.poisoned THEN [chunk |-> c, ret |-> "panic"]
  ELSE IF c.stage # current_stage
    THEN [chunk |-> [c EXCEPT !.poisoned = TRUE], ret |-> "panic"]
  ELSE IF c.progress = Processing
    THEN [chunk |-> [c EXCEPT !.stage = next_stage, !.progress = Waiting,
                              !.ready_once = c.ready_once \/ next_stage = "Ready"],
          ret |-> "ok"]
  ELSE IF IsSwitching(c.progress)
    THEN [chunk |-> [c EXCEPT !.stage = c.progress[2], !.progress = Waiting,
                              !.ready_once = c.ready_once \/ c.progress[2] = "Ready",
                              !.redirected = "end"],
          ret |-> "ok"]
  ELSE [chunk |-> [c EXCEPT !.poisoned = TRUE], ret |-> "panic"]

\* assign_if_waiting without the test of the progress: it always assigns.
assign_if_waiting_always(c) ==
  IF c.poisoned THEN [chunk |-> c, ret |-> "panic"]
  ELSE [chunk |-> [c EXCEPT !.progress = TaskAssigned], ret |-> "true"]

\* assign_if_waiting that also reserves a chunk whose progress is TaskAssigned.
assign_if_waiting_reassign(c) ==
  IF c.poisoned THEN [chunk |-> c, ret |-> "panic"]
  ELSE IF c.progress \in {Waiting, TaskAssigned}
    THEN [chunk |-> [c EXCEPT !.progress = TaskAssigned], ret |-> "true"]
  ELSE [chunk |-> c, ret |-> "false"]

\* assign_if_waiting that returns true without recording TaskAssigned.
assign_if_waiting_unrecorded(c) ==
  IF c.poisoned THEN [chunk |-> c, ret |-> "panic"]
  ELSE IF c.progress = Waiting
    THEN [chunk |-> c, ret |-> "true"]
  ELSE [chunk |-> c, ret |-> "false"]

\* Chunk::assign_if_waiting
assign_if_waiting(c) ==
  IF c.poisoned THEN [chunk |-> c, ret |-> "panic"]
  ELSE IF c.progress = Waiting
    THEN [chunk |-> [c EXCEPT !.progress = TaskAssigned], ret |-> "true"]
  ELSE [chunk |-> c, ret |-> "false"]

\* Chunk::get_pending_stage
get_pending_stage(c) == IF c.progress = Waiting THEN Some(c.stage) ELSE None

\* Chunk::get_stage
get_stage(c) == c.stage

\* The block array gen computes: a function of the chunk's coordinate and of
\* the column's heightmap (the noise function is fixed).
GenBlocks(chunk_id, height_map) == [pos |-> chunk_id, hm |-> height_map]

\* The visibility array gen_block_vis computes: a function of the chunk's own
\* blocks and of what get_block_at returned for each of the six adjacent
\* chunks (None: no chunk in the snapshot, or a chunk without blocks).
GenVis(blocks, adjacent_blocks) == [own |-> blocks, adj |-> adjacent_blocks]

\* The vertices and indices update_vertices computes.
GenVertices(chunk_id, blocks, block_vis) ==
  [pos |-> chunk_id, blocks |-> blocks, vis |-> block_vis]

\* update_vertex_buffer that makes a new ChunkMesh on every call.
update_vertex_buffer_recreate(c, data) ==
  [c EXCEPT !.mesh = Some([obj |-> c.meshes_made + 1, data |-> data]),
            !.meshes_made = c.meshes_made + 1]

\* Chunk::update_vertex_buffer on the mesh field: an existing mesh is updated
\* in place, a missing one is created.
update_vertex_buffer(c, data) ==
  IF IsSome(c.mesh)
    THEN [c EXCEPT !.mesh = Some([obj |-> Unwrap(c.mesh).obj, data |-> data])]
    ELSE [c EXCEPT !.mesh = Some([obj |-> c.meshes_made + 1, data |-> data]),
                   !.meshes_made = c.meshes_made + 1]

\* Chunk::get_mesh_fast when the mesh lock is free.
get_mesh_fast(c) == IF IsSome(c.mesh) THEN Some(Unwrap(c.mesh).data) ELSE None

(***************************************************************************)
(* ChunkedTerrain (chunkedterrain.rs): the window.                         *)
(*   chunks     the chunk objects alive (Arc<Chunk>), by object identity   *)
(*   next_id    the identity the next created chunk object gets            *)
(*   columns    the columns, each [chunks: object identities, height_map]  *)
(*   chunk_gc   what the last window slide sent to the collector channel   *)
(*   chunk_dropped  what the last window slide released on its own thread  *)
(*   queue      the worker pool's channel (worker_pool_sender)             *)
(*   workers    the worker pool's threads                                  *)
(*   disp       the threads that run World::tick / tick_progress           *)
(*   slides, redirects  what is left of the bounds on the window slides    *)
(*              and the redirections of a behaviour                        *)
(*   probe      the argument and the result of the last direct call of a   *)
(*              method (SpecWindow, SpecFace)                              *)
(***************************************************************************)
VARIABLES chunks, next_id, columns, chunk_id_bounds, player_last_chunk_id,
          chunk_gc, chunk_dropped, queue, workers, disp, slides, redirects,
          probe

vars == <<chunks, next_id, columns, chunk_id_bounds, player_last_chunk_id,
          chunk_gc, chunk_dropped, queue, workers, disp, slides, redirects,
          probe>>

\* player_position.block_int.map(|val| val / CHUNK_SIZE as i32)
PlayerChunkId(block_int) == [i \in 1..3 |-> RustDiv(block_int[i], CHUNK_SIZE)]

\* The bounds with the upper corner one chunk further out.
BoundsAround_inclusive(player_chunk_id) ==
  << [i \in 1..3 |-> player_chunk_id[i] - RenderDistance],
     [i \in 1..3 |-> player_chunk_id[i] + RenderDistance + 1] >>

\* [player_chunk_id - render_distance, player_chunk_id + render_distance]
BoundsAround(player_chunk_id) ==
  << [i \in 1..3 |-> player_chunk_id[i] - RenderDistance],
     [i \in 1..3 |-> player_chunk_id[i] + RenderDistance] >>

\* iproduct!(bounds x range, bounds z range): the column keys in order.
ColumnKeys(b) ==
  Flatten([i \in 1..Max(b[2][1] - b[1][1], 0) |->
            [j \in 1..Max(b[2][3] - b[1][3], 0) |->
              <<b[1][1] + i - 1, b[1][3] + j - 1>>]])

\* ChunkColumn::new: the heightmap is a function of the column's coordinate.
HeightMap(chunk_xz) == chunk_xz

\* The coordinates of the chunks of column (cx, cz) for y in lo..hi.
ColumnIds(cx, cz, lo, hi) == [i \in 1..Max(hi - lo, 0) |-> <<cx, lo + i - 1, cz>>]

\* The comparison with z as the major key.
KeyLess_zmajor(k, l) == k[2] < l[2] \/ (k[2] = l[2] /\ k[1] < l[1])

\* [a, b].cmp(&[c, d]) == Ordering::Less
KeyLess(k, l) == k[1] < l[1] \/ (k[1] = l[1] /\ k[2] < l[2])

\* reuse_column that does not skip the old chunks below the new range (red = 0).
reuse_column_noskip(old, old_bounds, new_bounds, column_pos, base) ==
  LET old_start == old_bounds[1][2]
      old_end == old_bounds[2][2]
      new_start == new_bounds[1][2]
      new_end == new_bounds[2][2]
      green == Max(old_start, new_start)
      blue == Min(old_end, new_end)
      lower == ColumnIds(column_pos[1], column_pos[2], new_start, green)
      nreuse == Max(blue - green, 0)
      upper == ColumnIds(column_pos[1], column_pos[2], blue, new_end)
  IN IF nreuse > Len(old)
     THEN [panic |-> TRUE, chunks |-> <<>>, gc |-> <<>>, fresh |-> <<>>]
     ELSE [panic |-> FALSE,
           chunks |-> [i \in 1..Len(lower) |-> base + i - 1]
                        \o SubSeq(old, 1, nreuse)
                        \o [i \in 1..Len(upper) |-> base + Len(lower) + i - 1],
           gc |-> SubSeq(old, nreuse + 1, Len(old)),
           fresh |-> lower \o upper]

\* ChunkedTerrain::reuse_column on the chunk list `old` of a column: the new
\* chunk list, the chunks sent to the collector and the coordinates of the
\* chunks created (the k-th of them is object base + k - 1), or a panic.
reuse_column(old, old_bounds, new_bounds, column_pos, base) ==
  LET old_start == old_bounds[1][2]
      old_end == old_bounds[2][2]
      new_start == new_bounds[1][2]
      new_end == new_bounds[2][2]
      ncx == column_pos[1]
      ncz == column_pos[2]
  IN IF new_start < old_end \/ new_end > old_start
     THEN
       LET red == Max(new_start - old_start, 0)
           green == Max(old_start, new_start)
           blue == Min(old_end, new_end)
           lower == ColumnIds(ncx, ncz, new_start, green)
           nreuse == Max(blue - green, 0)
           upper == ColumnIds(ncx, ncz, blue, new_end)
       IN IF red > Len(old)
          THEN \* useful_old_chunks.next().unwrap() on an exhausted iterator
               [panic |-> TRUE, chunks |-> <<>>, gc |-> old, fresh |-> <<>>]
          ELSE IF red + nreuse > Len(old)
          THEN \* panic!("Reused chunk was none.")
               [panic |-> TRUE,
                chunks |-> [i \in 1..Len(lower) |-> base + i - 1]
                             \o SubSeq(old, red + 1, Len(old)),
                gc |-> SubSeq(old, 1, red), fresh |-> lower]
          ELSE [panic |-> FALSE,
                chunks |-> [i \in 1..Len(lower) |-> base + i - 1]
                             \o SubSeq(old, red + 1, red + nreuse)
                             \o [i \in 1..Len(upper) |-> base + Len(lower) + i - 1],
                gc |-> SubSeq(old, 1, red) \o SubSeq(old, red + nreuse + 1, Len(old)),
                fresh |-> lower \o upper]
     ELSE
       LET all == ColumnIds(ncx, ncz, new_start, new_end)
       IN [panic |-> FALSE,
           chunks |-> [i \in 1..Len(all) |-> base + i - 1],
           gc |-> old, fresh |-> all]

\* The loop of update_player_position over the new column keys: `old` is what
\* is left of the zipped old columns (<<key, column>>), `acc` the result so
\* far: columns pushed, chunks sent to the collector, coordinates of the
\* chunks created.
RECURSIVE MergeColumns(_, _, _, _, _, _)
MergeColumns(keys, old, acc, old_bounds, new_bounds, base) ==
  IF keys = <<>>
  THEN \* old_column_iter is dropped here with what it still holds
       [acc EXCEPT !.dropped = Flatten([i \in 1..Len(old) |-> old[i][2].chunks])]
  ELSE
    LET key == Head(keys) IN
    IF old # <<>> /\ KeyLess(Head(old)[1], key)
    THEN \* skip a column that has already passed: its chunks go to the collector
         MergeColumns(keys, Tail(old),
                      [acc EXCEPT !.gc = @ \o Head(old)[2].chunks],
                      old_bounds, new_bounds, base)
    ELSE IF old # <<>> /\ Head(old)[1] = key
    THEN \* the column already exists
         LET r == reuse_column(Head(old)[2].chunks, old_bounds, new_bounds, key,
                               base + Len(acc.fresh))
             acc2 == [acc EXCEPT
                        !.columns = Append(@, [chunks |-> r.chunks,
                                               height_map |-> Head(old)[2].height_map]),
                        !.gc = @ \o r.gc,
                        !.fresh = @ \o r.fresh]
         IN IF r.panic
            THEN [acc2 EXCEPT !.panic = TRUE,
                   !.dropped = Flatten([i \in 1..Len(old) - 1 |-> Tail(old)[i][2].chunks])]
            ELSE MergeColumns(Tail(keys), Tail(old), acc2, old_bounds, new_bounds, base)
    ELSE \* create a new column
         LET ids == ColumnIds(key[1], key[2], new_bounds[1][2], new_bounds[2][2])
             first == base + Len(acc.fresh)
         IN MergeColumns(Tail(keys), old,
                         [acc EXCEPT
                            !.columns = Append(@, [chunks |-> [i \in 1..Len(ids) |-> first + i - 1],
                                                   height_map |-> HeightMap(key)]),
                            !.fresh = @ \o ids],
                         old_bounds, new_bounds, base)

\* ChunkedTerrain::update_player_position when the player's chunk changed.
SlideWindow(cols, old_bounds, new_bounds, base) ==
  LET keys == ColumnKeys(old_bounds)
      n == Min(Len(keys), Len(cols))
      zipped == [i \in 1..n |-> <<keys[i], cols[i]>>]
  IN MergeColumns(ColumnKeys(new_bounds), zipped,
                  [columns |-> <<>>, gc |-> <<>>, dropped |-> <<>>, fresh |-> <<>>,
                   panic |-> FALSE],
                  old_bounds, new_bounds, base)

\* ChunkedTerrain::get_chunk_at: the chunk object at a coordinate, or None.
get_chunk_at(cols, cib, chunk_id) ==
  IF /\ cib[1][1] <= chunk_id[1] /\ chunk_id[1] < cib[2][1]
     /\ cib[1][2] <= chunk_id[2] /\ chunk_id[2] < cib[2][2]
     /\ cib[1][3] <= chunk_id[3] /\ chunk_id[3] < cib[2][3]
  THEN LET rel_pos == [i \in 1..3 |-> chunk_id[i] - cib[1][i]]
       IN Some(cols[rel_pos[1] * (cib[2][1] - cib[1][1]) + rel_pos[3] + 1]
                 .chunks[rel_pos[2] + 1])
  ELSE None

\* The chunk objects of the window in the order tick_progress visits them.
WindowChunks(cols) == Flatten([i \in 1..Len(cols) |-> cols[i].chunks])

\* The first column of the window, whatever chunk the scan is at.
ColumnOf_first(cols, k) == Head(cols)

\* The heightmap of the column that holds the k-th chunk of the scan.
RECURSIVE ColumnOf(_, _)
ColumnOf(cols, k) ==
  IF k <= Len(Head(cols).chunks) THEN Head(cols)
  ELSE ColumnOf(Tail(cols), k - Len(Head(cols).chunks))

(***************************************************************************)
(* Tasks, worker threads and dispatcher threads.                           *)
(***************************************************************************)
\* ChunkTask { chunk, typ }: typ is GenTerrain(gen, height_map),
\* GenBlockVis(adjacent_chunks) or GenVertices.
Task(chunk, typ, height_map, adj) ==
  [chunk |-> chunk, typ |-> typ, height_map |-> height_map, adj |-> adj]
NoTask == Task(0, "none", <<>>, <<>>)
NoAdjacent == [k \in 1..6 |-> None]

\* A worker thread: where it is in the method it runs, its task, the
\* direction gen_block_vis reads next, the adjacent blocks read so far, and
\* (history) the chunk's stored data when the method was entered.
IdleWorker ==
  [pc |-> "idle", task |-> NoTask, dir |-> 0, adj_read |-> <<>>, before |-> <<>>]

\* The stored data of a chunk: blocks, block_vis, mesh.
Data(c) == <<c.blocks, c.block_vis, c.mesh>>
\* A dispatcher thread: where it is in tick_progress, the index of the chunk
\* the scan is at, the task type and the adjacent chunks it is about to send;
\* `scans` is what is left of the bound on its calls and `backlog` the bound
\* on what is in progress when it starts one (None: no bound).
IdleDispatcher(scans, backlog) ==
  [pc |-> "idle", i |-> 0, typ |-> "none", adj |-> <<>>,
   scans |-> scans, backlog |-> backlog]

\* The stage each task type's method expects and the stage it moves to.
ExpectedStage(typ) ==
  CASE typ = "GenTerrain" -> "ChunkGen"
    [] typ = "GenBlockVis" -> "ChunkVisGen"
    [] typ = "GenVertices" -> "MeshGen"
\* gen passing MeshGen as the next stage.
NextStage_skip(typ) ==
  CASE typ = "GenTerrain" -> "MeshGen"
    [] typ = "GenBlockVis" -> "MeshGen"
    [] typ = "GenVertices" -> "Ready"
NextStage(typ) ==
  CASE typ = "GenTerrain" -> "ChunkVisGen"
    [] typ = "GenBlockVis" -> "MeshGen"
    [] typ = "GenVertices" -> "Ready"

\* The chunk objects a task holds a reference to.
TaskRefs(t) ==
  IF t.typ = "none" THEN {}
  ELSE {t.chunk} \cup {Unwrap(t.adj[k]) : k \in {j \in 1..Len(t.adj) : IsSome(t.adj[j])}}

\* The window's references alone keep a chunk object alive.
LiveIds_window(cols, q, ws) ==
  SeqSet(WindowChunks(cols))

\* The chunk objects some Arc still points to: the window's, the queued
\* tasks' and the running tasks'.  The others are freed.
LiveIds(cols, q, ws) ==
  SeqSet(WindowChunks(cols))
    \cup UNION {TaskRefs(q[i]) : i \in 1..Len(q)}
    \cup UNION {TaskRefs(ws[w].task) : w \in DOMAIN ws}

Collect(chs, cols, q, ws) ==
  [id \in DOMAIN chs \cap LiveIds(cols, q, ws) |-> chs[id]]

\* The first direction from `from` on whose adjacent chunk is in the snapshot
\* (7: none).
RECURSIVE NextPresent(_, _)
NextPresent(adj, from) ==
  IF from > 6 THEN 7
  ELSE IF IsSome(adj[from]) THEN from
  ELSE NextPresent(adj, from + 1)

(***************************************************************************)
(* Initial states.                                                         *)
(***************************************************************************)
\* ChunkedTerrain::new
NewTerrain(player_position) ==
  LET b == BoundsAround(PlayerChunkId(player_position))
      keys == ColumnKeys(b)
      height == Max(b[2][2] - b[1][2], 0)
  IN [columns |-> [i \in 1..Len(keys) |->
                     [chunks |-> [j \in 1..height |-> (i - 1) * height + j],
                      height_map |-> HeightMap(keys[i])]],
      chunks |-> [id \in 1..(Len(keys) * height) |->
                    NewChunk(<<keys[((id - 1) \div height) + 1][1],
                               b[1][2] + ((id - 1) % height),
                               keys[((id - 1) \div height) + 1][2]>>)],
      bounds |-> b,
      last |-> PlayerChunkId(player_position)]

\* The terrain World::new builds, with the given threads and bounds.
InitTerrain(dispatchers, nworkers, nslides, nredirects) ==
  LET t == NewTerrain(InitialPosition) IN
  /\ chunks = t.chunks
  /\ next_id = Cardinality(DOMAIN t.chunks) + 1
  /\ columns = t.columns
  /\ chunk_id_bounds = t.bounds
  /\ player_last_chunk_id = t.last
  /\ chunk_gc = <<>>
  /\ chunk_dropped = <<>>
  /\ queue = <<>>
  /\ workers = [w \in 1..nworkers |-> IdleWorker]
  /\ disp = dispatchers
  /\ slides = nslides
  /\ redirects = nredirects

InitWith(dispatchers, nworkers, nslides, nredirects) ==
  /\ InitTerrain(dispatchers, nworkers, nslides, nredirects)
  /\ probe = None

\* World::new: one thread ticks the world.
Init == InitWith(<<IdleDispatcher(MaxTicks, None)>>, PoolThreads, MaxSlides, 0)

(***************************************************************************)
(* The dispatcher: World::tick = update_player_position; tick_progress.    *)
(***************************************************************************)
\* The dispatcher moves on to the chunk after the i-th, or ends the scan.
Advance(d) ==
  IF d.i < Len(WindowChunks(columns))
  THEN [IdleDispatcher(d.scans, d.backlog) EXCEPT !.pc = "pending", !.i = d.i + 1]
  ELSE IdleDispatcher(d.scans, d.backlog)

\* What is in progress: the tasks sent and not yet finished or skipped, and
\* the scans of tick_progress under way.
Unfinished ==
  Len(queue) + Cardinality({w \in DOMAIN workers : workers[w].task.typ # "none"})
    + Cardinality({d \in DOMAIN disp : disp[d].pc \notin {"idle", "panicked"}})

\* The thread may make one more call of tick_progress.
MayScan(d) ==
  /\ d.pc = "idle"
  /\ d.scans > 0
  /\ IsSome(d.backlog) => Unfinished <= Unwrap(d.backlog)

\* The scan of tick_progress starts at the first chunk of the window.
StartScan(d, cols) ==
  IF Len(WindowChunks(cols)) > 0
  THEN [IdleDispatcher(d.scans - 1, d.backlog) EXCEPT !.pc = "pending", !.i = 1]
  ELSE IdleDispatcher(d.scans - 1, d.backlog)

\* update_player_position without the early return for an unchanged chunk.
update_player_position_noskip(cols, cib, last, base, player_position) ==
  LET player_chunk_id == PlayerChunkId(player_position)
      new_bounds == BoundsAround(player_chunk_id)
      r == SlideWindow(cols, cib, new_bounds, base)
  IN IF r.panic
     THEN [ret |-> "panic", columns |-> r.columns, chunk_id_bounds |-> cib,
           player_last_chunk_id |-> last, gc |-> r.gc, dropped |-> r.dropped,
           fresh |-> r.fresh]
     ELSE [ret |-> "true", columns |-> r.columns, chunk_id_bounds |-> new_bounds,
           player_last_chunk_id |-> player_chunk_id, gc |-> r.gc,
           dropped |-> r.dropped, fresh |-> r.fresh]

\* ChunkedTerrain::update_player_position on the window (cols, cib, last):
\* what it returns ("panic": it panicked), the window after it, the chunks it
\* sent to the collector, the chunks it released itself and the coordinates
\* of the chunks it created (the k-th of them is object base + k - 1).
update_player_position(cols, cib, last, base, player_position) ==
  LET player_chunk_id == PlayerChunkId(player_position) IN
  IF player_chunk_id = last
  THEN [ret |-> "false", columns |-> cols, chunk_id_bounds |-> cib,
        player_last_chunk_id |-> last, gc |-> <<>>, dropped |-> <<>>, fresh |-> <<>>]
  ELSE LET new_bounds == BoundsAround(player_chunk_id)
           r == SlideWindow(cols, cib, new_bounds, base)
       IN IF r.panic
          THEN [ret |-> "panic", columns |-> r.columns, chunk_id_bounds |-> cib,
                player_last_chunk_id |-> last, gc |-> r.gc, dropped |-> r.dropped,
                fresh |-> r.fresh]
          ELSE [ret |-> "true", columns |-> r.columns, chunk_id_bounds |-> new_bounds,
                player_last_chunk_id |-> player_chunk_id, gc |-> r.gc,
                dropped |-> r.dropped, fresh |-> r.fresh]

\* A slide that makes the chunks it keeps anew: each is left as Chunk::new
\* leaves it.
ApplyUpdate_regenerate(r) ==
  IF r.ret = "false"
  THEN UNCHANGED <<chunks, next_id, columns, chunk_id_bounds, player_last_chunk_id,
                   chunk_gc, chunk_dropped, slides>>
  ELSE /\ slides > 0
       /\ slides' = slides - 1
       /\ LET created == [id \in next_id..(next_id + Len(r.fresh) - 1) |->
                            NewChunk(r.fresh[id - next_id + 1])]
              heap == [id \in DOMAIN chunks \cup DOMAIN created |->
                         IF id \in DOMAIN created THEN created[id]
                         ELSE NewChunk(chunks[id].chunk_id)]
          IN chunks' = Collect(heap, r.columns, queue, workers)
       /\ next_id' = next_id + Len(r.fresh)
       /\ columns' = r.columns
       /\ chunk_id_bounds' = r.chunk_id_bounds
       /\ player_last_chunk_id' = r.player_last_chunk_id
       /\ chunk_gc' = r.gc
       /\ chunk_dropped' = r.dropped

\* The terrain and the heap after a call of update_player_position with the
\* outcome r; a call that returned false has touched nothing.
ApplyUpdate(r) ==
  IF r.ret = "false"
  THEN UNCHANGED <<chunks, next_id, columns, chunk_id_bounds, player_last_chunk_id,
                   chunk_gc, chunk_dropped, slides>>
  ELSE /\ slides > 0
       /\ slides' = slides - 1
       /\ LET created == [id \in next_id..(next_id + Len(r.fresh) - 1) |->
                            NewChunk(r.fresh[id - next_id + 1])]
              heap == [id \in DOMAIN chunks \cup DOMAIN created |->
                         IF id \in DOMAIN created THEN created[id] ELSE chunks[id]]
          IN chunks' = Collect(heap, r.columns, queue, workers)
       /\ next_id' = next_id + Len(r.fresh)
       /\ columns' = r.columns
       /\ chunk_id_bounds' = r.chunk_id_bounds
       /\ player_last_chunk_id' = r.player_last_chunk_id
       /\ chunk_gc' = r.gc
       /\ chunk_dropped' = r.dropped

\* World::tick, world.rs:100-101: update_player_position with the player's
\* position, then the start of tick_progress.
TickUpdate(d, player_position) ==
  /\ MayScan(disp[d])
  /\ LET r == update_player_position(columns, chunk_id_bounds, player_last_chunk_id,
                                     next_id, player_position)
     IN /\ ApplyUpdate(r)
        /\ disp' = [disp EXCEPT ![d] =
             IF r.ret = "panic" THEN [@ EXCEPT !.pc = "panicked"]
             ELSE StartScan(@, r.columns)]
  /\ UNCHANGED <<queue, workers, redirects>>

\* World::tick calls update_player_position with the player's position and
\* then starts tick_progress.
UpdatePlayerPosition(d, player_position) ==
  /\ TickUpdate(d, player_position)
  /\ UNCHANGED probe

\* tick_progress, for the chunk the scan is at: chunk.get_pending_stage() and
\* the match on it.
GetPendingStage(d) ==
  /\ disp[d].pc = "pending"
  /\ LET c == chunks[WindowChunks(columns)[disp[d].i]]
         stage == get_pending_stage(c)
     IN disp' = [disp EXCEPT ![d] =
          IF c.poisoned THEN [@ EXCEPT !.pc = "panicked"]
          ELSE IF stage = Some("ChunkGen")
            THEN [@ EXCEPT !.pc = "send", !.typ = "GenTerrain"]
          ELSE IF stage = Some("ChunkVisGen")
            THEN [@ EXCEPT !.pc = "check"]
          ELSE IF stage = Some("MeshGen")
            THEN [@ EXCEPT !.pc = "send", !.typ = "GenVertices"]
          ELSE Advance(@)]
  /\ UNCHANGED <<chunks, next_id, columns, chunk_id_bounds, player_last_chunk_id,
                 chunk_gc, chunk_dropped, queue, workers, slides, redirects, probe>>

\* The adjacent chunks of the chunk object id, looked up in the window.
AdjacentChunks(id) ==
  [k \in 1..6 |->
    get_chunk_at(columns, chunk_id_bounds,
                 [i \in 1..3 |-> chunks[id].chunk_id[i] + ADJACENT_OFFSETS[k][i]])]

\* The ChunkVisGen arm without the test of the adjacent chunks' stages.
CheckAdjacent_untested(d) ==
  /\ disp[d].pc = "check"
  /\ disp' = [disp EXCEPT ![d] =
       [@ EXCEPT !.pc = "send", !.typ = "GenBlockVis",
                 !.adj = AdjacentChunks(WindowChunks(columns)[disp[d].i])]]
  /\ UNCHANGED <<chunks, next_id, columns, chunk_id_bounds, player_last_chunk_id,
                 chunk_gc, chunk_dropped, queue, workers, slides, redirects, probe>>

\* The ChunkVisGen arm with an absent adjacent chunk counted as still
\* generating (map_or(true, ...)).
CheckAdjacent_absent_blocks(d) ==
  /\ disp[d].pc = "check"
  /\ LET id == WindowChunks(columns)[disp[d].i]
         adjacent_chunks == AdjacentChunks(id)
         present == {k \in 1..6 : IsSome(adjacent_chunks[k])}
     IN disp' = [disp EXCEPT ![d] =
          IF \E k \in present : chunks[Unwrap(adjacent_chunks[k])].poisoned
            THEN [@ EXCEPT !.pc = "panicked"]
          ELSE IF \/ present # 1..6
                  \/ \E k \in present :
                       get_stage(chunks[Unwrap(adjacent_chunks[k])]) = "ChunkGen"
            THEN Advance(@)
          ELSE [@ EXCEPT !.pc = "send", !.typ = "GenBlockVis", !.adj = adjacent_chunks]]
  /\ UNCHANGED <<chunks, next_id, columns, chunk_id_bounds, player_last_chunk_id,
                 chunk_gc, chunk_dropped, queue, workers, slides, redirects, probe>>

\* tick_progress, the ChunkVisGen arm: the snapshot of the adjacent chunks and
\* the test that none of them is still at ChunkGen.  The stages of the
\* adjacent chunks are read one lock at a time; a stage that has left ChunkGen
\* does not return to it while the scan runs, so reading them in one step
\* yields the same outcomes.
CheckAdjacent(d) ==
  /\ disp[d].pc = "check"
  /\ LET id == WindowChunks(columns)[disp[d].i]
         adjacent_chunks == AdjacentChunks(id)
         present == {k \in 1..6 : IsSome(adjacent_chunks[k])}
     IN disp' = [disp EXCEPT ![d] =
          IF \E k \in present : chunks[Unwrap(adjacent_chunks[k])].poisoned
            THEN [@ EXCEPT !.pc = "panicked"]
          ELSE IF \E k \in present :
                    get_stage(chunks[Unwrap(adjacent_chunks[k])]) = "ChunkGen"
            THEN Advance(@)
          ELSE [@ EXCEPT !.pc = "send", !.typ = "GenBlockVis", !.adj = adjacent_chunks]]
  /\ UNCHANGED <<chunks, next_id, columns, chunk_id_bounds, player_last_chunk_id,
                 chunk_gc, chunk_dropped, queue, workers, slides, redirects, probe>>

\* ChunkedTerrain::send_task
SendTask(d) ==
  /\ disp[d].pc = "send"
  /\ LET id == WindowChunks(columns)[disp[d].i]
         r == assign_if_waiting(chunks[id])
         task == Task(id, disp[d].typ,
                      IF disp[d].typ = "GenTerrain"
                        THEN ColumnOf(columns, disp[d].i).height_map ELSE <<>>,
                      IF disp[d].typ = "GenBlockVis" THEN disp[d].adj ELSE NoAdjacent)
     IN /\ chunks' = [chunks EXCEPT ![id] = r.chunk]
        /\ queue' = IF r.ret = "true" THEN Append(queue, task) ELSE queue
        /\ disp' = [disp EXCEPT ![d] =
                      IF r.ret = "panic" THEN [@ EXCEPT !.pc = "panicked"]
                      ELSE Advance(@)]
  /\ UNCHANGED <<next_id, columns, chunk_id_bounds, player_last_chunk_id,
                 chunk_gc, chunk_dropped, workers, slides, redirects, probe>>

(***************************************************************************)
(* The worker pool: each thread takes the next task of the channel and     *)
(* calls chunk.gen, chunk.gen_block_vis or chunk.update_vertices.  A method *)
(* is a sequence of steps, one per lock it takes.                          *)
(***************************************************************************)
UnchangedWindow ==
  UNCHANGED <<next_id, columns, chunk_id_bounds, player_last_chunk_id,
              chunk_gc, chunk_dropped, disp, slides, redirects, probe>>

\* A worker thread receives a task.
TakeTask(w) ==
  /\ workers[w].pc = "idle"
  /\ queue # <<>>
  /\ workers' = [workers EXCEPT ![w] = [IdleWorker EXCEPT !.pc = "start", !.task = Head(queue)]]
  /\ queue' = Tail(queue)
  /\ UNCHANGED chunks
  /\ UnchangedWindow

\* The worker returns from the method: the task and its references are gone.
Finish(w, heap) ==
  /\ workers' = [workers EXCEPT ![w] = IdleWorker]
  /\ chunks' = Collect(heap, columns, queue, workers')

\* The thread of a worker ends in a panic; the references of its task are
\* released by the unwinding.
Panic(w, heap) ==
  /\ workers' = [workers EXCEPT ![w] = [IdleWorker EXCEPT !.pc = "panicked"]]
  /\ chunks' = Collect(heap, columns, queue, workers')

\* The first line of gen, gen_block_vis and update_vertices:
\* if !self.start_process_check(stage) { return; }
StartProcessCheck(w) ==
  /\ workers[w].pc = "start"
  /\ LET t == workers[w].task
         r == start_process_check(chunks[t.chunk], ExpectedStage(t.typ))
         heap == [chunks EXCEPT ![t.chunk] = r.chunk]
     IN IF r.ret = "panic" THEN Panic(w, heap)
        ELSE IF r.ret = "false" THEN Finish(w, heap)
        ELSE /\ chunks' = heap
             /\ workers' = [workers EXCEPT ![w] =
                  LET e == [@ EXCEPT !.before = Data(chunks[t.chunk])] IN
                  IF t.typ = "GenTerrain" THEN [e EXCEPT !.pc = "gen"]
                  ELSE IF t.typ = "GenVertices" THEN [e EXCEPT !.pc = "mesh"]
                  ELSE IF NextPresent(t.adj, 1) > 6
                    THEN [e EXCEPT !.pc = "vis_write", !.adj_read = NoAdjacent]
                  ELSE [e EXCEPT !.pc = "vis_read", !.adj_read = NoAdjacent,
                                 !.dir = NextPresent(t.adj, 1)]]
  /\ UNCHANGED queue
  /\ UnchangedWindow

\* gen, chunk.rs:129-162: the blocks are computed and stored.
GenWrite(w) ==
  /\ workers[w].pc = "gen"
  /\ LET t == workers[w].task IN
     chunks' = [chunks EXCEPT ![t.chunk].blocks =
                  Some(GenBlocks(chunks[t.chunk].chunk_id, t.height_map))]
  /\ workers' = [workers EXCEPT ![w].pc = "end"]
  /\ UNCHANGED queue
  /\ UnchangedWindow

\* gen_block_vis, chunk.rs:246-248: get_block_at on the adjacent chunk of
\* direction dir takes that chunk's read lock and reads its block array.
VisRead(w) ==
  /\ workers[w].pc = "vis_read"
  /\ LET t == workers[w].task
         k == workers[w].dir
         next == NextPresent(t.adj, k + 1)
     IN workers' = [workers EXCEPT ![w] =
          [@ EXCEPT !.adj_read[k] = chunks[Unwrap(t.adj[k])].blocks,
                    !.dir = next,
                    !.pc = IF next > 6 THEN "vis_write" ELSE "vis_read"]]
  /\ UNCHANGED <<chunks, queue>>
  /\ UnchangedWindow

\* gen_block_vis, chunk.rs:218-261: the visibility is computed from the own
\* blocks and the adjacent blocks read, and stored.
VisWrite(w) ==
  /\ workers[w].pc = "vis_write"
  /\ LET t == workers[w].task
         c == chunks[t.chunk]
     IN IF ~IsSome(c.blocks)
        THEN \* block_read_lock.as_ref().unwrap()
             Panic(w, chunks)
        ELSE /\ chunks' = [chunks EXCEPT ![t.chunk].block_vis =
                             Some(GenVis(Unwrap(c.blocks), workers[w].adj_read))]
             /\ workers' = [workers EXCEPT ![w].pc = "end"]
  /\ UNCHANGED queue
  /\ UnchangedWindow

\* update_vertices, chunk.rs:272-309: the vertices are computed from the
\* blocks and the visibility, and update_vertex_buffer stores them.
MeshWrite(w) ==
  /\ workers[w].pc = "mesh"
  /\ LET t == workers[w].task
         c == chunks[t.chunk]
     IN IF ~IsSome(c.block_vis) \/ ~IsSome(c.blocks)
        THEN \* expect("Please call gen_block_vis ...") or unwrap()
             Panic(w, chunks)
        ELSE /\ chunks' = [chunks EXCEPT ![t.chunk] =
                             update_vertex_buffer(c,
                               GenVertices(c.chunk_id, Unwrap(c.blocks), Unwrap(c.block_vis)))]
             /\ workers' = [workers EXCEPT ![w].pc = "end"]
  /\ UNCHANGED queue
  /\ UnchangedWindow

\* The last line of gen, gen_block_vis and update_vertices:
\* self.end_process_check(stage, next stage, || {})
EndProcessCheck(w) ==
  /\ workers[w].pc = "end"
  /\ LET t == workers[w].task
         r == end_process_check(chunks[t.chunk], ExpectedStage(t.typ), NextStage(t.typ))
         heap == [chunks EXCEPT ![t.chunk] = r.chunk]
     IN IF r.ret = "panic" THEN Panic(w, heap) ELSE Finish(w, heap)
  /\ UNCHANGED queue
  /\ UnchangedWindow

(***************************************************************************)
(* Specifications.                                                         *)
(***************************************************************************)
Next ==
  \/ \E d \in DOMAIN disp, p \in PlayerPositions : UpdatePlayerPosition(d, p)
  \/ \E d \in DOMAIN disp : GetPendingStage(d)
  \/ \E d \in DOMAIN disp : CheckAdjacent(d)
  \/ \E d \in DOMAIN disp : SendTask(d)
  \/ \E w \in DOMAIN workers : TakeTask(w)
  \/ \E w \in DOMAIN workers : StartProcessCheck(w)
  \/ \E w \in DOMAIN workers : GenWrite(w)
  \/ \E w \in DOMAIN workers : VisRead(w)
  \/ \E w \in DOMAIN workers : VisWrite(w)
  \/ \E w \in DOMAIN workers : MeshWrite(w)
  \/ \E w \in DOMAIN workers : EndProcessCheck(w)

\* The program: one thread ticks the world, the pool's threads run the tasks.
Spec == Init /\ [][Next]_vars

(***************************************************************************)
(* tick_progress takes &self.  In SpecConcurrent a second thread calls it  *)
(* on the terrain while the ticking thread runs (no window slide:          *)
(* update_player_position takes &mut self), and the pool has several       *)
(* threads.                                                                *)
(***************************************************************************)
\* A thread calls tick_progress.
BeginScan(d) ==
  /\ MayScan(disp[d])
  /\ d > 1 => MaxScans - disp[1].scans > EarlyScans
  /\ disp' = [disp EXCEPT ![d] = StartScan(@, columns)]
  /\ UNCHANGED <<chunks, next_id, columns, chunk_id_bounds, player_last_chunk_id,
                 chunk_gc, chunk_dropped, queue, workers, slides, redirects, probe>>

NextConcurrent ==
  \/ \E d \in DOMAIN disp : BeginScan(d)
  \/ \E d \in DOMAIN disp : GetPendingStage(d)
  \/ \E d \in DOMAIN disp : CheckAdjacent(d)
  \/ \E d \in DOMAIN disp : SendTask(d)
  \/ \E w \in DOMAIN workers : TakeTask(w)
  \/ \E w \in DOMAIN workers : StartProcessCheck(w)
  \/ \E w \in DOMAIN workers : GenWrite(w)
  \/ \E w \in DOMAIN workers : VisRead(w)
  \/ \E w \in DOMAIN workers : VisWrite(w)
  \/ \E w \in DOMAIN workers : MeshWrite(w)
  \/ \E w \in DOMAIN workers : EndProcessCheck(w)

InitConcurrent ==
  InitWith(<<IdleDispatcher(MaxScans, Some(MaxOverlap)), IdleDispatcher(MaxReentries, None)>>,
           ConcurrentThreads, 0, 0)

SpecConcurrent == InitConcurrent /\ [][NextConcurrent]_vars

(***************************************************************************)
(* No code of the repository sets SwitchingTo.  spec.md (sections 3, 4.1)  *)
(* has another thread set it on a chunk whose task is outstanding;         *)
(* SpecRedirect adds that thread to the program.                           *)
(***************************************************************************)
Redirect(id, s) ==
  /\ redirects > 0
  /\ ~chunks[id].poisoned
  /\ chunks[id].progress \in {TaskAssigned, Processing}
  /\ redirects' = redirects - 1
  /\ chunks' = [chunks EXCEPT ![id].progress = SwitchingTo(s)]
  /\ UNCHANGED <<next_id, columns, chunk_id_bounds, player_last_chunk_id,
                 chunk_gc, chunk_dropped, queue, workers, disp, slides, probe>>

NextRedirect ==
  \/ Next
  \/ \E id \in DOMAIN chunks, s \in ChunkStateStage : Redirect(id, s)

InitRedirect == InitWith(<<IdleDispatcher(RedirectTicks, None)>>, PoolThreads, 0, MaxRedirects)

SpecRedirect == InitRedirect /\ [][NextRedirect]_vars

(***************************************************************************)
(* gen_block_vis on one face (chunk.rs:228-256).  A block array is given   *)
(* by the slab of solid blocks it holds: [axis, lo, hi] is solid where     *)
(* lo <= coordinate[axis] < hi and air elsewhere.                          *)
(***************************************************************************)
\* CHUNK_RANGE_I32.contains on the three coordinates
InChunk(pos) == \A i \in 1..3 : 0 <= pos[i] /\ pos[i] < CHUNK_SIZE

\* The block of the array at an in-chunk position.
BlockAt(blocks, pos) ==
  IF blocks.lo <= pos[blocks.axis] /\ pos[blocks.axis] < blocks.hi
    THEN "Solid" ELSE "Air"

\* Block::is_translucent: air lets the face behind it be seen.
is_translucent(block) == block = "Air"

\* Chunk::get_block_at on a chunk's block array (None before gen).
get_block_at(blocks, pos) ==
  IF IsSome(blocks) /\ InChunk(pos) THEN Some(BlockAt(Unwrap(blocks), pos)) ELSE None

\* Chunk::get_surrounding_blocks_of, for one side.
get_surrounding_block(blocks, pos, side) ==
  get_block_at(blocks, [i \in 1..3 |-> pos[i] + ADJACENT_OFFSETS[side][i]])

\* gen_block_vis, chunk.rs:237-244: the position read in the adjacent chunk.
\* Sides 1..6 are Right, Left, Above, Below, Back, Front.
rel_pos(side, pos) ==
  CASE side = 1 -> <<1, pos[2], pos[3]>>
    [] side = 2 -> <<CHUNK_SIZE - 1, pos[2], pos[3]>>
    [] side = 3 -> <<pos[1], 1, pos[3]>>
    [] side = 4 -> <<pos[1], CHUNK_SIZE - 1, pos[3]>>
    [] side = 5 -> <<pos[1], pos[2], 1>>
    [] side = 6 -> <<pos[1], pos[2], CHUNK_SIZE - 1>>

\* gen_block_vis, chunk.rs:231-257: whether the face `side` of the non-air
\* voxel at pos is visible; adjacent is the block array (or None) of the
\* adjacent chunk on that side.
FaceVisible(blocks, adjacent, side, pos) ==
  LET block == get_surrounding_block(blocks, pos, side) IN
  IF IsSome(block) THEN is_translucent(Unwrap(block))
  ELSE LET outside == get_block_at(adjacent, rel_pos(side, pos))
       IN IF IsSome(outside) THEN is_translucent(Unwrap(outside)) ELSE FALSE

\* The coordinates tried, and the block arrays tried.
FaceCoords == (0..FaceDepth) \cup ((CHUNK_SIZE - 1 - FaceDepth)..(CHUNK_SIZE - 1))
Slabs ==
  {[axis |-> a, lo |-> 0, hi |-> h] : a \in 1..3, h \in 0..SlabDepth}
    \cup {[axis |-> a, lo |-> CHUNK_SIZE - h, hi |-> CHUNK_SIZE] : a \in 1..3, h \in 0..SlabDepth}
    \cup {[axis |-> 1, lo |-> 0, hi |-> CHUNK_SIZE]}

\* A face is chosen: a chunk's block array, a non-air voxel of it, a side
\* and the adjacent chunk's block array on that side (None: no chunk there).
InitFace ==
  /\ InitTerrain(<<IdleDispatcher(0, None)>>, 0, 0, 0)
  /\ probe \in {f \in [blocks : Slabs, adjacent : {None} \cup {Some(b) : b \in Slabs},
                       side : 1..6, pos : FaceCoords \X FaceCoords \X FaceCoords,
                       visible : {None}] :
                  BlockAt(f.blocks, f.pos) # "Air"}

\* gen_block_vis decides the face.
DecideFace ==
  /\ probe # None
  /\ probe.visible = None
  /\ probe' = [probe EXCEPT !.visible =
                 Some(FaceVisible(Some(probe.blocks), probe.adjacent, probe.side, probe.pos))]
  /\ UNCHANGED <<chunks, next_id, columns, chunk_id_bounds, player_last_chunk_id,
                 chunk_gc, chunk_dropped, queue, workers, disp, slides, redirects>>

SpecFace == InitFace /\ [][DecideFace]_vars

(***************************************************************************)
(* update_player_position called on its own (SpecWindow), from positions   *)
(* on every side of the window, some of them further away than the window  *)
(* is wide.  probe holds the position supplied, what the call returned and *)
(* the window before the call.                                             *)
(***************************************************************************)
WindowPositions ==
  {<<InitialPosition[1] + CHUNK_SIZE * dx, InitialPosition[2] + CHUNK_SIZE * dy,
     InitialPosition[3] + CHUNK_SIZE * dz>> :
     dx \in (0 - JumpXZ)..JumpXZ, dy \in (0 - JumpY)..JumpY, dz \in (0 - JumpXZ)..JumpXZ}

MovePlayer(player_position) ==
  /\ disp[1].pc = "idle"
  /\ slides > 0 \/ PlayerChunkId(player_position) = player_last_chunk_id
  /\ LET r == update_player_position(columns, chunk_id_bounds, player_last_chunk_id,
                                     next_id, player_position)
     IN /\ ApplyUpdate(r)
        /\ disp' = IF r.ret = "panic" THEN [disp EXCEPT ![1].pc = "panicked"] ELSE disp
        /\ probe' = [position |-> player_position, ret |-> r.ret,
                     columns |-> columns, chunk_id_bounds |-> chunk_id_bounds,
                     player_last_chunk_id |-> player_last_chunk_id,
                     chunk_gc |-> chunk_gc]
  /\ UNCHANGED <<queue, workers, redirects>>

InitWindow == InitWith(<<IdleDispatcher(0, None)>>, 0, MaxMoves, 0)

NextWindow == \E p \in WindowPositions : MovePlayer(p)

SpecWindow == InitWindow /\ [][NextWindow]_vars

(***************************************************************************)
(* SpecSlide: the program of Spec with one more tick, so that the window   *)
(* slides over chunks at every stage; a call of update_player_position     *)
(* that moves the window leaves in probe the chunks and the window it      *)
(* found.                                                                  *)
(***************************************************************************)
RecordedUpdate(d, player_position) ==
  /\ TickUpdate(d, player_position)
  /\ probe' = IF PlayerChunkId(player_position) = player_last_chunk_id THEN probe
              ELSE [chunks |-> chunks, columns |-> columns,
                    chunk_id_bounds |-> chunk_id_bounds]

NextSlide ==
  \/ \E d \in DOMAIN disp, p \in PlayerPositions : RecordedUpdate(d, p)
  \/ \E d \in DOMAIN disp : GetPendingStage(d)
  \/ \E d \in DOMAIN disp : CheckAdjacent(d)
  \/ \E d \in DOMAIN disp : SendTask(d)
  \/ \E w \in DOMAIN workers : TakeTask(w)
  \/ \E w \in DOMAIN workers : StartProcessCheck(w)
  \/ \E w \in DOMAIN workers : GenWrite(w)
  \/ \E w \in DOMAIN workers : VisRead(w)
  \/ \E w \in DOMAIN workers : VisWrite(w)
  \/ \E w \in DOMAIN workers : MeshWrite(w)
  \/ \E w \in DOMAIN workers : EndProcessCheck(w)

InitSlide == InitWith(<<IdleDispatcher(SlideTicks, Some(SlideBacklog))>>, PoolThreads, MaxSlides, 0)

SpecSlide == InitSlide /\ [][NextSlide]_vars

(***************************************************************************)
(* SpecRemesh: the program of SpecRedirect with ticks enough for a chunk   *)
(* whose mesh task was redirected to MeshGen to have update_vertices run   *)
(* on it a second time.                                                    *)
(***************************************************************************)
InitRemesh ==
  InitWith(<<IdleDispatcher(RemeshTicks, Some(RemeshBacklog))>>, PoolThreads, 0, MaxRedirects)

SpecRemesh == InitRemesh /\ [][NextRedirect]_vars

(***************************************************************************)
(* SpecLive: World::tick is called again and again (the main loop), the    *)
(* player changes chunk at most MaxSlides times, and the threads are       *)
(* scheduled fairly.                                                       *)
(***************************************************************************)
\* World::tick, with no bound on the number of calls.
LiveTick(d, player_position) ==
  /\ MayScan(disp[d])
  /\ LET r == update_player_position(columns, chunk_id_bounds, player_last_chunk_id,
                                     next_id, player_position)
     IN /\ ApplyUpdate(r)
        /\ disp' = [disp EXCEPT ![d] =
             IF r.ret = "panic" THEN [@ EXCEPT !.pc = "panicked"]
             ELSE StartScan([@ EXCEPT !.scans = @ + 1], r.columns)]
  /\ UNCHANGED <<queue, workers, redirects, probe>>

\* The steps of the ticking thread and of a worker thread.
TickingThread ==
  \/ \E p \in PlayerPositions : LiveTick(1, p)
  \/ GetPendingStage(1)
  \/ CheckAdjacent(1)
  \/ SendTask(1)

WorkerThread(w) ==
  \/ TakeTask(w)
  \/ StartProcessCheck(w)
  \/ GenWrite(w)
  \/ VisRead(w)
  \/ VisWrite(w)
  \/ MeshWrite(w)
  \/ EndProcessCheck(w)

NextLive ==
  \/ \E p \in PlayerPositions : LiveTick(1, p)
  \/ GetPendingStage(1)
  \/ CheckAdjacent(1)
  \/ SendTask(1)
  \/ \E w \in DOMAIN workers : TakeTask(w)
  \/ \E w \in DOMAIN workers : StartProcessCheck(w)
  \/ \E w \in DOMAIN workers : GenWrite(w)
  \/ \E w \in DOMAIN workers : VisRead(w)
  \/ \E w \in DOMAIN workers : VisWrite(w)
  \/ \E w \in DOMAIN workers : MeshWrite(w)
  \/ \E w \in DOMAIN workers : EndProcessCheck(w)

InitLive == InitWith(<<IdleDispatcher(1, Some(LiveBacklog))>>, PoolThreads, MaxSlides, 0)

SpecLive ==
  /\ InitLive
  /\ [][NextLive]_vars
  /\ WF_vars(TickingThread)
  /\ \A w \in 1..PoolThreads : WF_vars(WorkerThread(w))

(***************************************************************************)
(* SpecLocks: the worker methods one lock at a time.  A chunk has four     *)
(* locks: state (Mutex), blocks (RwLock), block_vis (Mutex), mesh (Mutex).  *)
(* The state mutex is taken and released inside start_process_check,       *)
(* end_process_check, assign_if_waiting, get_pending_stage and get_stage,  *)
(* which take no other lock while they hold it: each is one step.  The     *)
(* other locks a thread holds follow from where the thread is:             *)
(*   gen             blocks.write() for the store at chunk.rs:162          *)
(*   gen_block_vis   blocks.read() at 218, held to the end of the method;  *)
(*                   in the loop blocks.read() again (181, in              *)
(*                   get_surrounding_blocks_of) and the adjacent chunk's    *)
(*                   blocks.read() (170, in get_block_at); block_vis.lock() *)
(*                   for the store at 261                                  *)
(*   update_vertices block_vis.lock() at 272, held to the end of the       *)
(*                   method; blocks.read() for the loop at 280;            *)
(*                   mesh.lock() in update_vertex_buffer (317)             *)
(* The main thread calls World::tick and, between ticks, get_meshes.       *)
(***************************************************************************)
\* The lock `kind` of the chunk object id.
Lock(kind, id) == <<kind, id>>

\* The mode get_surrounding_blocks_of takes the blocks lock in (chunk.rs:181).
get_surrounding_blocks_of_write == "write"
get_surrounding_blocks_of_mode == "read"

\* The locks the worker w holds where it is.
HeldBy(w) ==
  LET t == workers[w].task
      pc == workers[w].pc
  IN IF t.typ = "GenBlockVis" /\ pc \in {"vis_own", "vis_read", "vis_write", "end"}
       THEN {Lock("blocks", t.chunk)}
     ELSE IF t.typ = "GenVertices" /\ pc \in {"mesh", "mesh_buf", "end"}
       THEN {Lock("block_vis", t.chunk)}
     ELSE IF t.typ = "GenVertices" /\ pc = "mesh_store"
       THEN {Lock("block_vis", t.chunk), Lock("mesh", t.chunk)}
     ELSE {}

\* The lock the next step of the worker w acquires and the mode it takes it
\* in (None: the step acquires none, or only the state mutex).
Wanted(w) ==
  LET t == workers[w].task
      pc == workers[w].pc
  IN IF pc = "gen" THEN Some([lock |-> Lock("blocks", t.chunk), mode |-> "write"])
     ELSE IF pc = "vis_lock" THEN Some([lock |-> Lock("blocks", t.chunk), mode |-> "read"])
     ELSE IF pc = "vis_own"
       THEN Some([lock |-> Lock("blocks", t.chunk), mode |-> get_surrounding_blocks_of_mode])
     ELSE IF pc = "vis_read"
       THEN Some([lock |-> Lock("blocks", Unwrap(t.adj[workers[w].dir])), mode |-> "read"])
     ELSE IF pc = "vis_write" THEN Some([lock |-> Lock("block_vis", t.chunk), mode |-> "mutex"])
     ELSE IF pc = "mesh_lock" THEN Some([lock |-> Lock("block_vis", t.chunk), mode |-> "mutex"])
     ELSE IF pc = "mesh" THEN Some([lock |-> Lock("blocks", t.chunk), mode |-> "read"])
     ELSE IF pc = "mesh_buf" THEN Some([lock |-> Lock("mesh", t.chunk), mode |-> "mutex"])
     ELSE None

\* The workers that hold a lock.
Holders(lock) == {w \in DOMAIN workers : lock \in HeldBy(w)}

\* The workers whose blocks.write() is waiting for the readers of the lock.
WaitingWriters(lock) ==
  {v \in DOMAIN workers :
     /\ Wanted(v) # None
     /\ Unwrap(Wanted(v)).lock = lock
     /\ Unwrap(Wanted(v)).mode = "write"
     /\ Holders(lock) # {}}

\* The workers the next step of w has to wait for.  A Mutex and a write wait
\* for every holder, the thread itself included; a read waits for a writer,
\* and a writer holds the lock for its one step only, so a read waits when a
\* writer is queued before it (the RwLock prefers writers).
WaitsFor(w) ==
  IF Wanted(w) = None THEN {}
  ELSE LET want == Unwrap(Wanted(w)) IN
       IF want.mode = "read" THEN WaitingWriters(want.lock) \ {w}
       ELSE Holders(want.lock)

\* The first line of gen, gen_block_vis and update_vertices.
LockStartProcessCheck(w) ==
  /\ workers[w].pc = "start"
  /\ LET t == workers[w].task
         r == start_process_check(chunks[t.chunk], ExpectedStage(t.typ))
         heap == [chunks EXCEPT ![t.chunk] = r.chunk]
     IN IF r.ret = "panic" THEN Panic(w, heap)
        ELSE IF r.ret = "false" THEN Finish(w, heap)
        ELSE /\ chunks' = heap
             /\ workers' = [workers EXCEPT ![w] =
                  LET e == [@ EXCEPT !.before = Data(chunks[t.chunk])] IN
                  IF t.typ = "GenTerrain" THEN [e EXCEPT !.pc = "gen"]
                  ELSE IF t.typ = "GenVertices" THEN [e EXCEPT !.pc = "mesh_lock"]
                  ELSE [e EXCEPT !.pc = "vis_lock"]]
  /\ UNCHANGED queue
  /\ UnchangedWindow

\* gen, chunk.rs:162: *self.blocks.write().unwrap() = Some(blocks)
LockGenWrite(w) ==
  /\ WaitsFor(w) = {}
  /\ GenWrite(w)

\* gen_block_vis, chunk.rs:218-219: the read lock of the own blocks.
VisLock(w) ==
  /\ workers[w].pc = "vis_lock"
  /\ WaitsFor(w) = {}
  /\ IF ~IsSome(chunks[workers[w].task.chunk].blocks)
     THEN \* block_read_lock.as_ref().unwrap()
          Panic(w, chunks)
     ELSE /\ workers' = [workers EXCEPT ![w].pc = "vis_own"]
          /\ UNCHANGED chunks
  /\ UNCHANGED queue
  /\ UnchangedWindow

\* gen_block_vis, chunk.rs:228: get_surrounding_blocks_of takes the lock of
\* the own blocks again and releases it when it returns.
VisOwn(w) ==
  /\ workers[w].pc = "vis_own"
  /\ WaitsFor(w) = {}
  /\ LET next == NextPresent(workers[w].task.adj, 1) IN
     workers' = [workers EXCEPT ![w] =
       IF next > 6 THEN [@ EXCEPT !.pc = "vis_write", !.adj_read = NoAdjacent]
       ELSE [@ EXCEPT !.pc = "vis_read", !.adj_read = NoAdjacent, !.dir = next]]
  /\ UNCHANGED <<chunks, queue>>
  /\ UnchangedWindow

\* gen_block_vis, chunk.rs:246-248: get_block_at on an adjacent chunk.
LockVisRead(w) ==
  /\ WaitsFor(w) = {}
  /\ VisRead(w)

\* gen_block_vis, chunk.rs:261: *self.block_vis.lock().unwrap() = Some(..)
LockVisWrite(w) ==
  /\ WaitsFor(w) = {}
  /\ VisWrite(w)

\* update_vertices, chunk.rs:272-273: the lock of block_vis.
MeshLock(w) ==
  /\ workers[w].pc = "mesh_lock"
  /\ WaitsFor(w) = {}
  /\ IF ~IsSome(chunks[workers[w].task.chunk].block_vis)
     THEN \* expect("Please call gen_block_vis ...")
          Panic(w, chunks)
     ELSE /\ workers' = [workers EXCEPT ![w].pc = "mesh"]
          /\ UNCHANGED chunks
  /\ UNCHANGED queue
  /\ UnchangedWindow

\* update_vertices, chunk.rs:280-308: the loop, under the read lock of the
\* own blocks.
MeshCompute(w) ==
  /\ workers[w].pc = "mesh"
  /\ WaitsFor(w) = {}
  /\ IF ~IsSome(chunks[workers[w].task.chunk].blocks)
     THEN \* self.blocks.read().unwrap().as_ref().unwrap()
          Panic(w, chunks)
     ELSE /\ workers' = [workers EXCEPT ![w].pc = "mesh_buf"]
          /\ UNCHANGED chunks
  /\ UNCHANGED queue
  /\ UnchangedWindow

\* update_vertex_buffer, chunk.rs:317: the lock of mesh.
MeshBufLock(w) ==
  /\ workers[w].pc = "mesh_buf"
  /\ WaitsFor(w) = {}
  /\ workers' = [workers EXCEPT ![w].pc = "mesh_store"]
  /\ UNCHANGED <<chunks, queue>>
  /\ UnchangedWindow

\* update_vertex_buffer, chunk.rs:318-331: the buffers are updated or
\* created, and the lock of mesh is released.
MeshStore(w) ==
  /\ workers[w].pc = "mesh_store"
  /\ LET t == workers[w].task
         c == chunks[t.chunk]
     IN chunks' = [chunks EXCEPT ![t.chunk] =
                     update_vertex_buffer(c,
                       GenVertices(c.chunk_id, Unwrap(c.blocks), Unwrap(c.block_vis)))]
  /\ workers' = [workers EXCEPT ![w].pc = "end"]
  /\ UNCHANGED queue
  /\ UnchangedWindow

\* Mutex::try_lock: whether the call waits when the lock is held.
try_lock_waits_as_lock(held) == held
try_lock_waits(held) == FALSE

\* Chunk::get_mesh_fast, the mesh lock held by a worker or free.
get_mesh_fast_locked(c, held) == IF held THEN None ELSE get_mesh_fast(c)

\* ChunkedTerrain::get_meshes, called by the main thread between two ticks:
\* probe gets the chunks it returned a mesh for and the chunks whose mesh
\* lock was held.
GetMeshes(d) ==
  /\ disp[d].pc = "idle"
  /\ \A id \in SeqSet(WindowChunks(columns)) : ~try_lock_waits(Holders(Lock("mesh", id)) # {})
  /\ LET ids == WindowChunks(columns)
         got == [i \in 1..Len(ids) |->
                   get_mesh_fast_locked(chunks[ids[i]], Holders(Lock("mesh", ids[i])) # {})]
     IN probe' = [meshes |-> {ids[i] : i \in {j \in 1..Len(ids) : IsSome(got[j])}},
                  locked |-> {id \in SeqSet(WindowChunks(columns)) : Holders(Lock("mesh", id)) # {}}]
  /\ UNCHANGED <<chunks, next_id, columns, chunk_id_bounds, player_last_chunk_id,
                 chunk_gc, chunk_dropped, queue, workers, disp, slides, redirects>>

NextLocks ==
  \/ \E d \in DOMAIN disp, p \in PlayerPositions : UpdatePlayerPosition(d, p)
  \/ \E d \in DOMAIN disp : GetPendingStage(d)
  \/ \E d \in DOMAIN disp : CheckAdjacent(d)
  \/ \E d \in DOMAIN disp : SendTask(d)
  \/ \E d \in DOMAIN disp : GetMeshes(d)
  \/ \E w \in DOMAIN workers : TakeTask(w)
  \/ \E w \in DOMAIN workers : LockStartProcessCheck(w)
  \/ \E w \in DOMAIN workers : LockGenWrite(w)
  \/ \E w \in DOMAIN workers : VisLock(w)
  \/ \E w \in DOMAIN workers : VisOwn(w)
  \/ \E w \in DOMAIN workers : LockVisRead(w)
  \/ \E w \in DOMAIN workers : LockVisWrite(w)
  \/ \E w \in DOMAIN workers : MeshLock(w)
  \/ \E w \in DOMAIN workers : MeshCompute(w)
  \/ \E w \in DOMAIN workers : MeshBufLock(w)
  \/ \E w \in DOMAIN workers : MeshStore(w)
  \/ \E w \in DOMAIN workers : EndProcessCheck(w)

InitLocks ==
  InitWith(<<IdleDispatcher(LockTicks, Some(LockBacklog))>>, LockThreads, 0, 0)

SpecLocks == InitLocks /\ [][NextLocks]_vars

\* The same threads, with the player changing chunk at most MaxSlides times.
InitLockSlide ==
  InitWith(<<IdleDispatcher(LockTicks, Some(LockBacklog))>>, LockThreads, MaxSlides, 0)

SpecLockSlide == InitLockSlide /\ [][NextLocks]_vars

(***************************************************************************)
(* Properties.                                                             *)
(***************************************************************************)
\* The positions of a worker inside a stage body: after a start_process_check
\* that returned true and up to the matching end_process_check.
BodyPcs == {"gen", "vis_read", "vis_write", "mesh", "end"}

\* The workers inside the stage body of the chunk object id.
InBody(id) ==
  {w \in DOMAIN workers : workers[w].pc \in BodyPcs /\ workers[w].task.chunk = id}

\* The tasks sent for the chunk object id and not yet finished or skipped.
Outstanding(id) ==
  Cardinality({i \in 1..Len(queue) : queue[i].chunk = id})
    + Cardinality({w \in DOMAIN workers :
                     workers[w].task.typ # "none" /\ workers[w].task.chunk = id})

InWindow == SeqSet(WindowChunks(columns))

\* The chunk object of the window at a coordinate, found by the coordinate
\* the object carries.
AtCoordinate(pos) == {id \in InWindow : chunks[id].chunk_id = pos}

\* The chunk objects of the window face-adjacent to the object id in direction k.
Neighbour(id, k) ==
  AtCoordinate([i \in 1..3 |-> chunks[id].chunk_id[i] + ADJACENT_OFFSETS[k][i]])

\* C1: at any instant at most one worker is inside the stage body of a chunk
\* (between a start_process_check that returned true and the matching
\* end_process_check).
C1_OneProcessing == \A id \in DOMAIN chunks : Cardinality(InBody(id)) <= 1

\* Two workers are inside stage bodies at the same time, each alone in its chunk.
C1_Witness ==
  \E v, w \in DOMAIN workers :
    /\ v # w
    /\ workers[v].pc \in BodyPcs
    /\ workers[w].pc \in BodyPcs
    /\ chunks[workers[v].task.chunk].progress = Processing
    /\ chunks[workers[w].task.chunk].progress = Processing

\* C2: for every chunk at most one task is outstanding (sent and not yet
\* finished or skipped), also when two scans of tick_progress run at the same
\* time; a chunk with an outstanding task is not Waiting unless the task has
\* found the wrong stage.
C2_OneOutstanding == \A id \in DOMAIN chunks : Outstanding(id) <= 1

\* A scan is about to call send_task for a chunk that the other scan has
\* already reserved and sent.
C2_Witness ==
  \E d \in DOMAIN disp :
    /\ disp[d].pc = "send"
    /\ LET id == WindowChunks(columns)[disp[d].i] IN
       /\ chunks[id].progress \in {TaskAssigned, Processing}
       /\ Outstanding(id) = 1

\* C3: every change of a chunk's stage that is not a redirection goes to the
\* immediate successor in ChunkGen, ChunkVisGen, MeshGen, Ready.
C3_StageSuccessor ==
  [][\A id \in DOMAIN chunks \cap DOMAIN chunks' :
       (chunks'[id].stage # chunks[id].stage /\ ~IsSwitching(chunks[id].progress))
         => StageOrd(chunks'[id].stage) = StageOrd(chunks[id].stage) + 1]_vars

\* A chunk has come to Ready without any redirection.
C3_Witness ==
  \E id \in DOMAIN chunks :
    /\ chunks[id].stage = "Ready"
    /\ chunks[id].redirected = "none"
    /\ IsSome(chunks[id].mesh)

\* C4: with one dispatcher thread no task reaches start_process_check while
\* its chunk is Waiting or at another stage than the task expects, and no
\* thread has panicked.
C4_NoGuardFault ==
  /\ \A w \in DOMAIN workers :
       /\ workers[w].pc # "panicked"
       /\ workers[w].pc = "start" =>
            /\ chunks[workers[w].task.chunk].progress # Waiting
            /\ chunks[workers[w].task.chunk].stage = ExpectedStage(workers[w].task.typ)
  /\ \A d \in DOMAIN disp : disp[d].pc # "panicked"

\* A task is about to run its start guard on a chunk that a window slide has
\* evicted in the meantime.
C4_Witness ==
  \E w \in DOMAIN workers :
    /\ workers[w].pc = "start"
    /\ workers[w].task.chunk \notin InWindow

\* C5: when the end guard of a task finds SwitchingTo(s), set while the
\* stage body ran, the result is discarded: the chunk's stored data is what
\* it was before the run, its stage is s and its progress Waiting.
C5_ResultDiscarded ==
  [][\A w \in DOMAIN workers :
       (/\ workers[w].pc = "end"
        /\ workers'[w].pc = "idle"
        /\ IsSwitching(chunks[workers[w].task.chunk].progress))
         => LET id == workers[w].task.chunk IN
            /\ Data(chunks'[id]) = workers[w].before
            /\ chunks'[id].stage = chunks[id].progress[2]
            /\ chunks'[id].progress = Waiting]_vars

\* C6: when the start guard of a task finds SwitchingTo(s), the stage body
\* is not run: the method returns, the chunk's stored data is unchanged, its
\* stage is s and its progress Waiting.
C6_BodySkipped ==
  [][\A w \in DOMAIN workers :
       (/\ workers[w].pc = "start"
        /\ workers'[w] # workers[w]
        /\ ~chunks[workers[w].task.chunk].poisoned
        /\ chunks[workers[w].task.chunk].stage = ExpectedStage(workers[w].task.typ)
        /\ IsSwitching(chunks[workers[w].task.chunk].progress))
         => LET id == workers[w].task.chunk IN
            /\ workers'[w] = IdleWorker
            /\ Data(chunks'[id]) = Data(chunks[id])
            /\ chunks'[id].stage = chunks[id].progress[2]
            /\ chunks'[id].progress = Waiting]_vars

\* A start guard has applied a redirection, and no task of the chunk is left.
C6_Witness ==
  \E id \in DOMAIN chunks :
    /\ chunks[id].redirected = "start"
    /\ chunks[id].progress = Waiting
    /\ Outstanding(id) = 0

\* C7: a chunk's blocks are present exactly when its stage is ChunkVisGen or
\* later, and its visibility exactly when its stage is MeshGen or later.
C7_DataIffStage ==
  \A id \in DOMAIN chunks :
    /\ IsSome(chunks[id].blocks) <=> StageOrd(chunks[id].stage) >= StageOrd("ChunkVisGen")
    /\ IsSome(chunks[id].block_vis) <=> StageOrd(chunks[id].stage) >= StageOrd("MeshGen")

\* C8: a chunk's mesh is present exactly when its stage has been Ready at
\* least once, and a mesh once created is never removed or replaced by
\* another buffer object.
C8_MeshIffReadyOnce ==
  \A id \in DOMAIN chunks :
    /\ IsSome(chunks[id].mesh) <=> chunks[id].ready_once
    /\ chunks[id].meshes_made = IF IsSome(chunks[id].mesh) THEN 1 ELSE 0
    /\ IsSome(chunks[id].mesh) => Unwrap(chunks[id].mesh).obj = 1

\* Every adjacent chunk in the snapshot of a GenBlockVis task that is queued
\* or running has its blocks.
C9_SnapshotHasBlocks ==
  \A t \in SeqSet(queue) \cup {workers[w].task : w \in DOMAIN workers} :
    t.typ = "GenBlockVis" =>
      \A k \in 1..6 : IsSome(t.adj[k]) => IsSome(chunks[Unwrap(t.adj[k])].blocks)

\* A step that sends a GenBlockVis task finds no chunk of the window adjacent
\* to the task's chunk at stage ChunkGen, and has all of them in the snapshot.
C9_SendStep ==
  \A d \in DOMAIN disp :
    (/\ disp[d].pc = "send"
     /\ disp[d].typ = "GenBlockVis"
     /\ disp'[d] # disp[d]
     /\ Len(queue') = Len(queue) + 1)
      => LET id == WindowChunks(columns)[disp[d].i] IN
         \A k \in 1..6 : \A n \in Neighbour(id, k) :
           /\ chunks[n].stage # "ChunkGen"
           /\ queue'[Len(queue')].adj[k] = Some(n)

\* C9: no GenBlockVis task is sent for a chunk while a chunk of the window
\* adjacent to it is at stage ChunkGen, so every adjacent chunk in the task's
\* snapshot has its blocks when the task reads them.
C9_NeighboursGenerated == []C9_SnapshotHasBlocks /\ [][C9_SendStep]_vars

\* A GenBlockVis task is about to read the blocks of an adjacent chunk of its
\* snapshot, while another chunk of the window is still at ChunkGen.
C9_Witness ==
  /\ \E w \in DOMAIN workers :
       /\ workers[w].pc = "vis_read"
       /\ IsSome(chunks[Unwrap(workers[w].task.adj[workers[w].dir])].blocks)
  /\ \E id \in InWindow : chunks[id].stage = "ChunkGen"

\* C10: a chunk whose visibility was computed while an adjacent chunk was
\* outside the window has it recomputed once that chunk is in the window and
\* generated: no chunk rests at Ready with a visibility that lacks a generated
\* adjacent chunk of the window.
C10_Recomputed ==
  \A id \in InWindow : \A k \in 1..6 : \A n \in Neighbour(id, k) :
    (/\ chunks[id].stage = "Ready"
     /\ chunks[id].progress = Waiting
     /\ chunks[n].stage # "ChunkGen")
      => Unwrap(chunks[id].block_vis).adj[k] # None

\* The voxel of the adjacent chunk that touches the face `side` of the voxel
\* at pos: coordinate 0 on the side's axis for the +X, +Y, +Z faces and
\* CHUNK_SIZE - 1 for the -X, -Y, -Z faces.
Touching(side, pos) ==
  LET axis == (side + 1) \div 2 IN
  [pos EXCEPT ![axis] = IF side % 2 = 1 THEN 0 ELSE CHUNK_SIZE - 1]

\* The face points out of the chunk.
OnBoundary(side, pos) ==
  ~InChunk([i \in 1..3 |-> pos[i] + ADJACENT_OFFSETS[side][i]])

\* C11: for a non-air voxel on the chunk boundary and a face pointing out of
\* the chunk, with the adjacent chunk generated, the face is visible exactly
\* when the adjacent chunk's voxel touching the face is translucent.
C11_TouchingVoxelDecides ==
  (/\ probe # None
   /\ IsSome(probe.visible)
   /\ OnBoundary(probe.side, probe.pos)
   /\ IsSome(probe.adjacent))
    => Unwrap(probe.visible) =
         is_translucent(BlockAt(Unwrap(probe.adjacent), Touching(probe.side, probe.pos)))

(***************************************************************************)
(* The window after a call of update_player_position (SpecWindow).         *)
(***************************************************************************)
\* The last call returned true: it moved the window.
Moved == probe # None /\ probe.ret = "true"

\* The bounds the last call computed from the position supplied.
CallBounds == BoundsAround(PlayerChunkId(probe.position))

\* The place of the column key k among the keys of the bounds b.
KeyPos(b, k) == CHOOSE i \in 1..Len(ColumnKeys(b)) : ColumnKeys(b)[i] = k

\* The chunk objects of the window before the last call.
OldWindow == SeqSet(WindowChunks(probe.columns))

\* The column keys the window had before the last call and has after it.
ReusedKeys ==
  SeqSet(ColumnKeys(probe.chunk_id_bounds)) \cap SeqSet(ColumnKeys(chunk_id_bounds))

\* Before the last call the window held one column per key and one chunk per
\* y of its bounds.
WellFormedBefore ==
  /\ Len(probe.columns) = Len(ColumnKeys(probe.chunk_id_bounds))
  /\ \A i \in 1..Len(probe.columns) :
       Len(probe.columns[i].chunks) = probe.chunk_id_bounds[2][2] - probe.chunk_id_bounds[1][2]

\* C12: a reused column whose old and new vertical ranges overlap holds, after
\* the call, one chunk per y of the new range in ascending order with id
\* (x, y, z); the chunks of the common range are the objects it held before,
\* the others are fresh, and the old chunks outside the new range were sent
\* to the collector and are out of the window.
C12_VerticalReuse ==
  (Moved /\ WellFormedBefore) =>
    \A k \in ReusedKeys :
      LET old == probe.columns[KeyPos(probe.chunk_id_bounds, k)].chunks
          new == columns[KeyPos(chunk_id_bounds, k)].chunks
          oldLo == probe.chunk_id_bounds[1][2]
          oldHi == probe.chunk_id_bounds[2][2]
          newLo == chunk_id_bounds[1][2]
          newHi == chunk_id_bounds[2][2]
      IN (newLo < oldHi /\ oldLo < newHi) =>
           /\ Len(new) = newHi - newLo
           /\ \A y \in newLo..(newHi - 1) :
                /\ chunks[new[y - newLo + 1]].chunk_id = <<k[1], y, k[2]>>
                /\ IF oldLo <= y /\ y < oldHi
                     THEN new[y - newLo + 1] = old[y - oldLo + 1]
                     ELSE new[y - newLo + 1] \notin OldWindow
           /\ \A y \in oldLo..(oldHi - 1) :
                ~(newLo <= y /\ y < newHi) =>
                  /\ old[y - oldLo + 1] \in SeqSet(chunk_gc)
                  /\ old[y - oldLo + 1] \notin InWindow

\* A call moved the window one chunk up and kept a column.
C12_Witness ==
  /\ Moved
  /\ WellFormedBefore
  /\ ReusedKeys # {}
  /\ chunk_id_bounds[1][2] = probe.chunk_id_bounds[1][2] + 1

\* C13: a call that moves the window to a vertical range disjoint from the old
\* one completes without fault; every reused column then holds exactly fresh
\* chunks for the new range and all its old chunks were sent to the collector.
C13_DisjointReuse ==
  (/\ probe # None
   /\ probe.ret # "false"
   /\ WellFormedBefore
   /\ \/ CallBounds[1][2] >= probe.chunk_id_bounds[2][2]
      \/ CallBounds[2][2] <= probe.chunk_id_bounds[1][2])
    => /\ probe.ret = "true"
       /\ \A k \in ReusedKeys :
            LET old == probe.columns[KeyPos(probe.chunk_id_bounds, k)].chunks
                new == columns[KeyPos(chunk_id_bounds, k)].chunks
            IN /\ Len(new) = chunk_id_bounds[2][2] - chunk_id_bounds[1][2]
               /\ \A j \in 1..Len(new) :
                    /\ new[j] \notin OldWindow
                    /\ chunks[new[j]].chunk_id = <<k[1], chunk_id_bounds[1][2] + j - 1, k[2]>>
               /\ \A j \in 1..Len(old) : old[j] \in SeqSet(chunk_gc)

\* C14: a call that moves the window by one chunk in +X sends exactly the
\* chunks of the columns with the old minimum x to the collector, creates the
\* columns with the new maximum x, and keeps every other column as it was.
C14_SlidePlusX ==
  (/\ Moved
   /\ WellFormedBefore
   /\ player_last_chunk_id =
        [probe.player_last_chunk_id EXCEPT ![1] = probe.player_last_chunk_id[1] + 1])
    => /\ SeqSet(chunk_gc) =
            UNION {SeqSet(probe.columns[KeyPos(probe.chunk_id_bounds, k)].chunks) :
                     k \in {l \in SeqSet(ColumnKeys(probe.chunk_id_bounds)) :
                              l[1] = probe.chunk_id_bounds[1][1]}}
       /\ Len(chunk_gc) = Cardinality(SeqSet(chunk_gc))
       /\ SeqSet(chunk_gc) \cap InWindow = {}
       /\ chunk_dropped = <<>>
       /\ Len(columns) = Len(ColumnKeys(chunk_id_bounds))
       /\ \A k \in SeqSet(ColumnKeys(chunk_id_bounds)) :
            LET col == columns[KeyPos(chunk_id_bounds, k)] IN
            IF k[1] = chunk_id_bounds[2][1] - 1
              THEN /\ Len(col.chunks) = chunk_id_bounds[2][2] - chunk_id_bounds[1][2]
                   /\ \A j \in 1..Len(col.chunks) :
                        /\ col.chunks[j] \notin OldWindow
                        /\ chunks[col.chunks[j]].chunk_id =
                             <<k[1], chunk_id_bounds[1][2] + j - 1, k[2]>>
              ELSE col = probe.columns[KeyPos(probe.chunk_id_bounds, k)]

\* A call moved the window by one chunk in +X.
C14_Witness ==
  /\ Moved
  /\ WellFormedBefore
  /\ player_last_chunk_id =
       [probe.player_last_chunk_id EXCEPT ![1] = probe.player_last_chunk_id[1] + 1]
  /\ chunk_gc # <<>>

\* C15: after a call that moved the window, every chunk that was in the
\* window and is not any more has been sent to the collector exactly once, no
\* chunk of the window has been sent, and the calling thread has released no
\* chunk itself.
C15_EvictedToCollector ==
  Moved =>
    /\ \A id \in OldWindow \ InWindow :
         Cardinality({i \in 1..Len(chunk_gc) : chunk_gc[i] = id}) = 1
    /\ SeqSet(chunk_gc) \cap InWindow = {}
    /\ chunk_dropped = <<>>

\* C16: a call with a position in the chunk player_last_chunk_id returns
\* false and changes neither the columns, nor a chunk, nor the bounds, nor
\* player_last_chunk_id, and sends nothing to the collector.
C16_NoMoveNoChange ==
  [][(probe' # probe /\ PlayerChunkId(probe'.position) = player_last_chunk_id)
       => /\ probe'.ret = "false"
          /\ UNCHANGED <<columns, chunks, chunk_id_bounds, player_last_chunk_id,
                         chunk_gc, chunk_dropped, next_id>>]_vars

\* A call after a move of the window has returned false.
C16_Witness ==
  /\ probe # None
  /\ probe.ret = "false"
  /\ slides < MaxMoves
  /\ PlayerChunkId(probe.position) = player_last_chunk_id

\* The columns are sorted by (x, z), one per (x, z) of the bounds, each with
\* one chunk per y of the bounds in ascending order.
SortedWindow ==
  LET keys == ColumnKeys(chunk_id_bounds) IN
  /\ Len(columns) = Len(keys)
  /\ \A i \in 1..Len(columns) :
       /\ Len(columns[i].chunks) = chunk_id_bounds[2][2] - chunk_id_bounds[1][2]
       /\ \A j \in 1..Len(columns[i].chunks) :
            chunks[columns[i].chunks[j]].chunk_id =
              <<keys[i][1], chunk_id_bounds[1][2] + j - 1, keys[i][2]>>

\* C17: after construction and after every call that returned,
\* get_chunk_at(c) is a chunk with id c for every coordinate c inside the
\* bounds and absent for the coordinates around them, and the columns are
\* sorted with one chunk per coordinate of the bounds.
C17_LookupByArithmetic ==
  disp[1].pc # "panicked" =>
    /\ SortedWindow
    /\ \A x \in (chunk_id_bounds[1][1] - 1)..chunk_id_bounds[2][1] :
       \A y \in (chunk_id_bounds[1][2] - 1)..chunk_id_bounds[2][2] :
       \A z \in (chunk_id_bounds[1][3] - 1)..chunk_id_bounds[2][3] :
         LET found == get_chunk_at(columns, chunk_id_bounds, <<x, y, z>>) IN
         IF /\ chunk_id_bounds[1][1] <= x /\ x < chunk_id_bounds[2][1]
            /\ chunk_id_bounds[1][2] <= y /\ y < chunk_id_bounds[2][2]
            /\ chunk_id_bounds[1][3] <= z /\ z < chunk_id_bounds[2][3]
           THEN IsSome(found) /\ chunks[Unwrap(found)].chunk_id = <<x, y, z>>
           ELSE found = None

\* C18: chunk_id_bounds is [c - render_distance, c + render_distance) on each
\* axis for c = player_last_chunk_id, c is the chunk of the last position
\* supplied, and c is inside the bounds.
C18_BoundsAroundPlayer ==
  /\ \A i \in 1..3 :
       /\ chunk_id_bounds[1][i] = player_last_chunk_id[i] - RenderDistance
       /\ chunk_id_bounds[2][i] = player_last_chunk_id[i] + RenderDistance
       /\ RenderDistance > 0 =>
            /\ chunk_id_bounds[1][i] <= player_last_chunk_id[i]
            /\ player_last_chunk_id[i] < chunk_id_bounds[2][i]
  /\ (probe # None /\ probe.ret # "panic") =>
       \A i \in 1..3 : player_last_chunk_id[i] = RustDiv(probe.position[i], CHUNK_SIZE)
  /\ probe = None =>
       \A i \in 1..3 : player_last_chunk_id[i] = RustDiv(InitialPosition[i], CHUNK_SIZE)

\* A call has moved the window to a chunk with negative x and z.
C18_Witness ==
  /\ Moved
  /\ player_last_chunk_id[1] < 0
  /\ player_last_chunk_id[3] < 0

(***************************************************************************)
(* A pool that drops a task.  The worker pool is not part of the sources;  *)
(* spec.md (section 4.2) allows a dispatch to be delayed or dropped.       *)
(* SpecDrop adds to the program a pool that may discard the next task of   *)
(* the channel without running it.                                         *)
(***************************************************************************)
\* The chunk object id of the window is reserved for a task that no longer
\* exists: nothing is queued or running for it.
Orphaned(id) ==
  /\ id \in InWindow
  /\ ~chunks[id].poisoned
  /\ chunks[id].progress = TaskAssigned
  /\ Outstanding(id) = 0

\* The pool drops the next task: it is never run, and its references go.
DropTask ==
  /\ queue # <<>>
  /\ Cardinality({id \in InWindow : Orphaned(id)}) < MaxOrphans
  /\ queue' = Tail(queue)
  /\ chunks' = Collect(chunks, columns, Tail(queue), workers)
  /\ UNCHANGED workers
  /\ UnchangedWindow

NextDrop ==
  \/ Next
  \/ DropTask

InitDrop == InitWith(<<IdleDispatcher(DropTicks, None)>>, PoolThreads, 0, 0)

SpecDrop == InitDrop /\ [][NextDrop]_vars

\* C19: when the pool has dropped the task sent for a chunk, a later
\* tick_progress dispatches the chunk's stage again: the scan that reaches the
\* chunk goes on to send a task for it (or, for ChunkVisGen, to test its
\* adjacent chunks first) instead of passing it by.
C19_DroppedRedispatched ==
  [][\A d \in DOMAIN disp :
       (/\ disp[d].pc = "pending"
        /\ disp'[d] # disp[d]
        /\ Orphaned(WindowChunks(columns)[disp[d].i]))
       => disp'[d].pc \in {"send", "check"}]_vars

\* The chunk objects every queued or running task holds a reference to.
Referenced ==
  UNION {TaskRefs(queue[i]) : i \in 1..Len(queue)}
    \cup UNION {TaskRefs(workers[w].task) : w \in DOMAIN workers}

\* The chunk objects evicted from the window that still exist.
Evicted == DOMAIN chunks \ InWindow

\* C20: a chunk evicted by update_player_position while a task for it is
\* outstanding stays a valid object for that task; the task's start and end
\* guards run on it without a panic and the task finishes normally (a finished
\* body leaves the chunk, if something still refers to it, at the next stage
\* and Waiting); meanwhile get_chunk_at does not return the chunk, no scan of
\* tick_progress is at it and no further task is sent for it.
C20_EvictedTaskCompletes ==
  [][/\ Referenced' \subseteq DOMAIN chunks'
     /\ \A w \in DOMAIN workers :
          LET t == workers[w].task IN
          (t.typ # "none" /\ t.chunk \notin InWindow) =>
            /\ ~chunks[t.chunk].poisoned
            /\ workers'[w].pc # "panicked"
            /\ t.chunk \in DOMAIN chunks' => ~chunks'[t.chunk].poisoned
            /\ (workers[w].pc = "end" /\ workers'[w] # workers[w]) =>
                 /\ workers'[w] = IdleWorker
                 /\ t.chunk \in DOMAIN chunks' =>
                      /\ chunks'[t.chunk].stage = NextStage(t.typ)
                      /\ chunks'[t.chunk].progress = Waiting
     /\ \A id \in Evicted :
          /\ get_chunk_at(columns, chunk_id_bounds, chunks[id].chunk_id) # Some(id)
          /\ \A d \in DOMAIN disp :
               disp[d].pc \in {"pending", "check", "send"} =>
                 WindowChunks(columns)[disp[d].i] # id
          /\ Outstanding(id)' <= Outstanding(id)]_vars

\* A worker is about to run the end guard of a task whose chunk has been
\* evicted: the chunk was evicted with the task outstanding, the start guard
\* and the body have run on it.
C20_Witness ==
  \E w \in DOMAIN workers :
    /\ workers[w].pc = "end"
    /\ workers[w].task.chunk \in Evicted
    /\ chunks[workers[w].task.chunk].progress = Processing

(***************************************************************************)
(* The chunk of a block position.                                          *)
(***************************************************************************)
\* gen, chunk.rs:129-141: the blocks of chunk chunk_id are at
\* chunk_id * CHUNK_SIZE + (0..CHUNK_SIZE) on each axis.
chunk_pos(chunk_id) == [i \in 1..3 |-> chunk_id[i] * CHUNK_SIZE]
ChunkContains(chunk_id, block_int) ==
  \A i \in 1..3 :
    /\ chunk_pos(chunk_id)[i] <= block_int[i]
    /\ block_int[i] < chunk_pos(chunk_id)[i] + CHUNK_SIZE

\* C28: the chunk coordinate update_player_position computes for the position
\* it is given (the one it leaves in player_last_chunk_id when it returns) is
\* the chunk that contains the position under the layout gen uses, negative
\* positions included.
C28_ChunkContainsPosition ==
  (probe # None /\ probe.ret # "panic") =>
    ChunkContains(player_last_chunk_id, probe.position)

(***************************************************************************)
(* The window slides over chunks in progress (SpecSlide).                  *)
(***************************************************************************)
\* C27: a call of update_player_position that moves the window leaves every
\* chunk object it keeps in the window as it was: same stage, same progress,
\* same blocks, visibility and mesh.
C27_SlideKeepsChunkState ==
  [][columns' # columns =>
       \A id \in InWindow \cap InWindow' : chunks'[id] = chunks[id]]_vars

\* The window has moved over a chunk that was Ready and a chunk whose task
\* was TaskAssigned or Processing, and has kept both.
C27_Witness ==
  /\ probe # None
  /\ \E id \in InWindow \cap SeqSet(WindowChunks(probe.columns)) :
       /\ probe.chunks[id].stage = "Ready"
       /\ probe.chunks[id].progress = Waiting
  /\ \E id \in InWindow \cap SeqSet(WindowChunks(probe.columns)) :
       probe.chunks[id].progress \in {TaskAssigned, Processing}

C25_BlocksByCoordinate ==
  \A id \in DOMAIN chunks :
    IsSome(chunks[id].blocks) =>
      Unwrap(chunks[id].blocks) =
        GenBlocks(chunks[id].chunk_id,
                  HeightMap(<<chunks[id].chunk_id[1], chunks[id].chunk_id[3]>>))

\* The window has moved, and it holds a generated chunk of a column the move
\* created next to a generated chunk of a column it kept.
C25_Witness ==
  /\ player_last_chunk_id # PlayerChunkId(InitialPosition)
  /\ \E id \in InWindow, kept \in InWindow :
       /\ chunks[id].chunk_id[1] = chunk_id_bounds[2][1] - 1
       /\ chunks[kept].chunk_id[1] = chunk_id_bounds[1][1]
       /\ IsSome(chunks[id].blocks)
       /\ IsSome(chunks[kept].blocks)

(***************************************************************************)
(* Progress (SpecLive).                                                    *)
(***************************************************************************)
\* Every chunk of the window is at Ready with progress Waiting.
AllReady ==
  \A id \in InWindow : chunks[id].stage = "Ready" /\ chunks[id].progress = Waiting

\* C26: once the player has stopped changing chunk, with tick_progress and
\* the workers scheduled fairly, every chunk of the window reaches Ready with
\* progress Waiting and stays there.
C26_EventuallyAllReady == <>[]AllReady

\* The window has moved, and every chunk of it is Ready and Waiting.
C26_Witness ==
  /\ player_last_chunk_id # PlayerChunkId(InitialPosition)
  /\ AllReady

(***************************************************************************)
(* Locks (SpecLocks).                                                      *)
(***************************************************************************)
\* C21: get_mesh_fast never waits for a lock: whenever the main thread is
\* between two ticks it can run get_meshes to the end, whatever the workers
\* hold; the call returns a mesh for exactly the chunks of the window whose
\* mesh is built and whose mesh lock no worker holds, and nothing for the
\* others.
C21_GetMeshesNeverWaits ==
  [][/\ disp[1].pc = "idle" => ENABLED GetMeshes(1)
     /\ probe' # probe =>
          /\ probe'.locked = {id \in InWindow : \E w \in DOMAIN workers :
                                 workers[w].pc = "mesh_store" /\ workers[w].task.chunk = id}
          /\ probe'.meshes = {id \in InWindow :
                                 IsSome(chunks[id].mesh) /\ id \notin probe'.locked}]_vars

\* get_meshes has run while a worker held the mesh lock of a chunk in
\* update_vertex_buffer, a chunk had no mesh yet and another had one.
C21_Witness ==
  /\ probe # None
  /\ probe.locked # {}
  /\ probe.meshes # {}
  /\ \E id \in InWindow : id \notin probe.locked /\ id \notin probe.meshes

\* C22: when a worker in gen_block_vis is about to take the read lock of an
\* adjacent chunk's blocks (get_block_at on the adjacent chunk), it holds no
\* lock of its own chunk.
C22_OneChunkLocked ==
  \A w \in DOMAIN workers :
    workers[w].pc = "vis_read" =>
      \A l \in HeldBy(w) : l[2] # workers[w].task.chunk

\* C23: no deadlock: there is no set of threads each of which waits for a
\* lock that a thread of the set holds (or, for a read, that a writer of the
\* set is queued for).  The main thread takes the state mutex, which is never
\* held across a step, and try_lock, which does not wait.
C23_NoDeadlock ==
  \A S \in SUBSET DOMAIN workers :
    S # {} => \E w \in S : WaitsFor(w) \cap S = {}

\* A worker in gen_block_vis is about to read the blocks of an adjacent chunk
\* while another worker, in gen_block_vis on that chunk, holds their lock.
C23_Witness ==
  \E w \in DOMAIN workers, v \in DOMAIN workers :
    /\ w # v
    /\ workers[w].pc = "vis_read"
    /\ Unwrap(Wanted(w)).lock \in HeldBy(v)
    /\ HeldBy(w) # {}

====
